---- MODULE Spec2Model ----
(***************************************************************************)
(* darwin-rs: the simulation engine of src/src/lib.rs, the Population of   *)
(* src/src/population.rs and the selector of src/src/select/max.rs.        *)
(*                                                                         *)
(* A SimulationBuilder is configured by a sequence of builder calls and    *)
(* finalized; a Simulation that finalize hands out is run.  One action per *)
(* builder method, one for Simulation::run's prologue, one per generation  *)
(* step (run_body_*_fittest, with the loop test of run that lets it        *)
(* execute) and one for the loop exit with run's epilogue.                 *)
(*                                                                         *)
(* Population::run_body is one action, with Population::calculate_fitness  *)
(* beside it (specification SpecPopulation); MaximizeSelector::select is   *)
(* an operator that run_body applies, and an action of its own on          *)
(* arbitrary slices (specification SpecSelect).                            *)
(*                                                                         *)
(* The parallel phase of run_body_global_fittest is also modelled worker   *)
(* by worker, one action per step of a worker's closure (specification     *)
(* SpecPool).                                                              *)
(*                                                                         *)
(* An individual is an integer gene; f64 fitness values are integers, and  *)
(* a quotient of two of them is kept as the pair <<numerator,denominator>>.*)
(***************************************************************************)
EXTENDS Integers, Sequences, FiniteSets

\* ---------------------------------------------------------------- bounds

\* Individuals are the genes 0..MaxGene.
MaxGene == 3
\* Longest population vector the builder may assemble.
MaxPop == 3
\* Generation steps explored under the two open-ended termination modes.
MaxSteps == 3

\* ------------------------------------------------------ program constants

\* SimulationBuilder::new: EndIteration(10), num_of_individuals: 10.
DefaultIterations == 10
DefaultIndividuals == 10
\* SimulationBuilder::finalize: the two thresholds.
MinIndividuals == 3
MinIterations == 10

\* ------------------------------------------------------- the Individual

Genes == 0 .. MaxGene

\* Individual::calculate_fittness, for the individuals of this model: lower
\* is better, gene 0 is a solution, and the genes 1 and 2 are two different
\* individuals of equal fitness.
calculate_fittness(g) == (g + 1) \div 2

\* std::f64::MAX: above the fitness of every individual.
F64_MAX == calculate_fittness(MaxGene) + 1

\* Individual::mutate: one random perturbation, to a neighbouring gene.
mutate(g) == {h \in Genes : h = g + 1 \/ h = g - 1}

\* for _ in 0..n { individual.mutate() }: the individuals n calls can produce.
RECURSIVE mutate_times(_, _)
mutate_times(g, n) ==
    IF n = 0 THEN {g}
    ELSE UNION {mutate(h) : h \in mutate_times(g, n - 1)}

\* struct IndividualWrapper.
IndividualWrapper(g, f, m) ==
    [individual |-> g, fittness |-> f, num_of_mutations |-> m]

\* ------------------------------------------------------------ f64 ratios

\* a / b as computed by f64 division, kept unevaluated.
Div(a, b) == <<a, b>>

\* q <= e for a quotient q and a finite e = <<n, d>> with d > 0.  A zero
\* denominator makes q infinite or NaN, and the comparison false.
FactorLeq(q, e) == q[2] > 0 /\ q[1] * e[2] <= e[1] * q[2]

\* ------------------------------------------------------------ the inputs

\* iterations(n): one value below the threshold, one at it.
IterationInputs == {MinIterations - 1, MinIterations}
\* individuals(n): a single individual, one value below the threshold, one
\* at it.
IndividualsInputs == {1, MinIndividuals - 1, MinIndividuals}
\* fittness(t): targets below the sentinel.
FittnessInputs == {0, 1}
\* factor(f): ratios in (0, 1].
FactorInputs == {<<1, 2>>, <<1, 1>>}
\* one_individual(g): the worst individual.
SeedInputs == {MaxGene}
\* one_individual_num_mut(g, m).
NumMutInputs == {0}
\* initial_population(v).
PopulationInputs == {<<1, MaxGene, 2>>}

VARIABLES
    pc,                  \* "build", "refused", "ready", "loop", "done", "panic"
    result,              \* BuilderResult: "none" until finalize
    type_of_simulation,  \* [kind, val]
    type_of_fittest,
    num_of_individuals,
    improvement_factor,
    original_fittness,
    population,
    iteration_counter,   \* Simulation.iteration_counter
    fittest,             \* run: let mut fittest
    iter,                \* run: let mut iteration_counter
    steps,               \* run: generation steps executed (the for loops' index)
    len_before,          \* history: population.len() when run was entered
    lowest,              \* history: the lowest fitness any generation computed
    self,                \* struct Population, the receiver of run_body
    can_crossover,       \* T::CAN_CROSSOVER of the individual type
    selector,            \* struct MaximizeSelector
    pstate,              \* "idle", or "panic" once a call has aborted the process
    orig_population,     \* run_body: let orig_population, as of the last call
    bred,                \* history: the working set the last call sorted
    handed_parents,      \* history: let parents of the last call, as crossover got them
    reset_fired,         \* history: the last run_body call took the reset branch
    calls_since_reset,   \* history: run_body calls since the last reset
    calls_at_reset,      \* history: which call after the previous reset fired the last one
    sel_population,      \* select: the slice it is called on
    sel_result,          \* select: [outcome, parents], outcome "none" before the call
    pool                 \* pool.for_ of a run body, worker by worker

\* The state of the Simulation and its builder.
vars == <<pc, result, type_of_simulation, type_of_fittest, num_of_individuals,
          improvement_factor, original_fittness, population, iteration_counter,
          fittest, iter, steps, len_before, lowest>>

sim_config == <<type_of_simulation, type_of_fittest, num_of_individuals,
                improvement_factor, original_fittness, iteration_counter>>
run_locals == <<fittest, iter, steps, len_before, lowest>>

population_vars == <<self, can_crossover, pstate, orig_population, bred,
                     handed_parents, reset_fired, calls_since_reset, calls_at_reset>>
selector_vars == <<selector, sel_population, sel_result>>
\* The state of the Population and of the selector, which Simulation never
\* touches.
pool_vars == <<pool>>
outside_simulation == <<population_vars, selector_vars, pool_vars>>
all_vars == <<vars, outside_simulation>>

EndIteration(n) == [kind |-> "EndIteration", val |-> n]
EndFittness(t) == [kind |-> "EndFittness", val |-> t]
EndFactor(f) == [kind |-> "EndFactor", val |-> f]

\* SimulationBuilder::new().
Init ==
    /\ pc = "build"
    /\ result = "none"
    /\ type_of_simulation = EndIteration(DefaultIterations)
    /\ type_of_fittest = "GlobalFittest"
    /\ num_of_individuals = DefaultIndividuals
    /\ improvement_factor = Div(F64_MAX, 1)
    /\ original_fittness = F64_MAX
    /\ population = <<>>
    /\ iteration_counter = 0
    /\ fittest = IndividualWrapper(0, F64_MAX, 0)
    /\ iter = 0
    /\ steps = 0
    /\ len_before = 0
    /\ lowest = F64_MAX

\* ------------------------------------------------------------ the builder

\* What no builder method touches.
builder_frame == <<pc, result, improvement_factor, original_fittness,
                   iteration_counter, run_locals, outside_simulation>>

iterations ==
    /\ pc = "build"
    /\ \E n \in IterationInputs : type_of_simulation' = EndIteration(n)
    /\ UNCHANGED <<builder_frame, type_of_fittest, num_of_individuals, population>>

factor ==
    /\ pc = "build"
    /\ \E f \in FactorInputs : type_of_simulation' = EndFactor(f)
    /\ UNCHANGED <<builder_frame, type_of_fittest, num_of_individuals, population>>

fittness ==
    /\ pc = "build"
    /\ \E t \in FittnessInputs : type_of_simulation' = EndFittness(t)
    /\ UNCHANGED <<builder_frame, type_of_fittest, num_of_individuals, population>>

individuals ==
    /\ pc = "build"
    /\ \E n \in IndividualsInputs : num_of_individuals' = n
    /\ UNCHANGED <<builder_frame, type_of_simulation, type_of_fittest, population>>

global_fittest ==
    /\ pc = "build"
    /\ type_of_fittest' = "GlobalFittest"
    /\ UNCHANGED <<builder_frame, type_of_simulation, num_of_individuals, population>>

local_fittest ==
    /\ pc = "build"
    /\ type_of_fittest' = "LocalFittest"
    /\ UNCHANGED <<builder_frame, type_of_simulation, num_of_individuals, population>>

random_fittest ==
    /\ pc = "build"
    /\ type_of_fittest' = "RandomFittest"
    /\ UNCHANGED <<builder_frame, type_of_simulation, num_of_individuals, population>>

\* The builder that scores the wrappers it builds.
wrap_all_scored(v, m) ==
    [i \in 1 .. Len(v) |-> IndividualWrapper(v[i], calculate_fittness(v[i]), m)]

\* The wrappers initial_population builds from the individuals v, each with
\* m mutations per generation.
wrap_all(v, m) == [i \in 1 .. Len(v) |-> IndividualWrapper(v[i], F64_MAX, m)]

initial_population ==
    /\ pc = "build"
    /\ \E v \in PopulationInputs :
          /\ population' = wrap_all(v, 1)
          /\ num_of_individuals' = Len(population')
    /\ UNCHANGED <<builder_frame, type_of_simulation, type_of_fittest>>

initial_population_num_mut ==
    /\ pc = "build"
    /\ \E v \in PopulationInputs, m \in NumMutInputs :
          /\ population' = wrap_all(v, m)
          /\ num_of_individuals' = Len(population')
    /\ UNCHANGED <<builder_frame, type_of_simulation, type_of_fittest>>

\* num_of_individuals pushes of the same wrapper onto the population.  The
\* builders explored push a single individual onto an empty population only.
push_individuals(pop, n, g, m) ==
    pop \o [i \in 1 .. n |-> IndividualWrapper(g, F64_MAX, m)]

one_individual ==
    /\ pc = "build"
    /\ Len(population) + num_of_individuals <= MaxPop
    /\ num_of_individuals = 1 => population = <<>>
    /\ \E g \in SeedInputs :
          population' = push_individuals(population, num_of_individuals, g, 1)
    /\ UNCHANGED <<builder_frame, type_of_simulation, type_of_fittest,
                   num_of_individuals>>

one_individual_num_mut ==
    /\ pc = "build"
    /\ Len(population) + num_of_individuals <= MaxPop
    /\ num_of_individuals = 1 => population = <<>>
    /\ \E g \in SeedInputs, m \in NumMutInputs :
          population' = push_individuals(population, num_of_individuals, g, m)
    /\ UNCHANGED <<builder_frame, type_of_simulation, type_of_fittest,
                   num_of_individuals>>

increasing_mutation_rate ==
    /\ pc = "build"
    /\ population' = [i \in 1 .. Len(population) |->
                         [population[i] EXCEPT !.num_of_mutations = i]]
    /\ UNCHANGED <<builder_frame, type_of_simulation, type_of_fittest,
                   num_of_individuals>>

\* finalize with its two tests in the other order.
finalize_result_iterations_first(n, t) ==
    IF t.kind = "EndIteration" /\ t.val < MinIterations THEN "LowIterration"
    ELSE IF n < MinIndividuals THEN "LowIndividuals"
    ELSE "Ok"

\* The BuilderResult variant finalize returns for n individuals and
\* termination mode t.
finalize_result(n, t) ==
    IF n < MinIndividuals THEN "LowIndividuals"
    ELSE IF t.kind = "EndIteration" /\ t.val < MinIterations THEN "LowIterration"
    ELSE "Ok"

\* finalize consumes the builder; the Simulation exists for the caller only
\* inside BuilderResult::Ok.
finalize ==
    /\ pc = "build"
    /\ result' = finalize_result(num_of_individuals, type_of_simulation)
    /\ pc' = IF result' = "Ok" THEN "ready" ELSE "refused"
    /\ UNCHANGED <<sim_config, population, run_locals, outside_simulation>>

Builder ==
    \/ iterations \/ factor \/ fittness \/ individuals
    \/ global_fittest \/ local_fittest \/ random_fittest
    \/ initial_population \/ initial_population_num_mut
    \/ one_individual \/ one_individual_num_mut
    \/ increasing_mutation_rate
    \/ finalize

\* ---------------------------------------------------- a generation step

\* The closure of pool.for_: the wrapper mutated num_of_mutations times and
\* rescored.  The wrappers it can leave.
mutated_wrappers(w) ==
    {[w EXCEPT !.individual = g, !.fittness = calculate_fittness(g)] :
        g \in mutate_times(w.individual, w.num_of_mutations)}

\* pool.for_(population.iter_mut(), ..): every wrapper is handled by the one
\* worker that owns it, and the call returns when all workers are done.  The
\* populations it can leave in slots 1..n.
RECURSIVE mutated_prefixes(_, _)
mutated_prefixes(pop, n) ==
    IF n = 0 THEN {<<>>}
    ELSE {Append(p, w) : p \in mutated_prefixes(pop, n - 1),
                         w \in mutated_wrappers(pop[n])}

mutated_populations(pop) == mutated_prefixes(pop, Len(pop))

\* The scan that lets a wrapper of equal fitness replace the incumbent.
RECURSIVE find_fittest_from_ties_replace(_, _, _)
find_fittest_from_ties_replace(pop, i, incumbent) ==
    IF i > Len(pop) THEN incumbent
    ELSE find_fittest_from_ties_replace(pop, i + 1,
             IF pop[i].fittness <= incumbent.fittness THEN pop[i] ELSE incumbent)

\* find_fittest: the first wrapper of pop[i..] strictly below the incumbent
\* replaces it, and the scan goes on.
RECURSIVE find_fittest_from(_, _, _)
find_fittest_from(pop, i, incumbent) ==
    IF i > Len(pop) THEN incumbent
    ELSE find_fittest_from(pop, i + 1,
             IF pop[i].fittness < incumbent.fittness THEN pop[i] ELSE incumbent)

find_fittest(pop, incumbent) == find_fittest_from(pop, 1, incumbent)

\* The copy without the assignment to population[0].fittness.
copy_to_others_stale_first(pop, f) ==
    [i \in 1 .. Len(pop) |->
        [pop[i] EXCEPT !.individual =
            IF i < Len(pop) THEN f.individual ELSE pop[i].individual]]

\* The fittest individual copied into every slot but the last, and the first
\* slot's cached fitness set to the fittest's.
copy_to_others(pop, f) ==
    [i \in 1 .. Len(pop) |->
        [individual |-> IF i < Len(pop) THEN f.individual ELSE pop[i].individual,
         fittness |-> IF i = 1 THEN f.fittness ELSE pop[i].fittness,
         num_of_mutations |-> pop[i].num_of_mutations]]

\* The propagation that writes the first slot as well.
copy_to_index_and_first(pop, f, index) ==
    [pop EXCEPT ![index].individual = f.individual, ![1].individual = f.individual]

\* The fittest individual copied into slot index alone.
copy_to_index(pop, f, index) ==
    [pop EXCEPT ![index].individual = f.individual]

\* The minimum of lowest and the fitnesses cached in pop.
lowest_of(pop, low) ==
    IF \E i \in 1 .. Len(pop) : pop[i].fittness < low
    THEN CHOOSE m \in {pop[i].fittness : i \in 1 .. Len(pop)} :
             \A i \in 1 .. Len(pop) : m <= pop[i].fittness
    ELSE low

\* -------------------------------------------------------- Simulation::run

\* A for loop over 0..=end_iteration.
end_iteration_reached_late(i, end_iteration) == i > end_iteration

\* The local test reading the last slot, which propagation leaves alone.
end_fittness_reached_last_slot(policy, pop, f, end_fittness) ==
    IF policy = "LocalFittest" THEN pop[Len(pop)].fittness <= end_fittness
    ELSE f.fittness <= end_fittness

\* The loop tests of run: true when the loop is left.
end_iteration_reached(i, end_iteration) == i >= end_iteration

end_factor_reached(factor_now, end_factor) == FactorLeq(factor_now, end_factor)

end_fittness_reached(policy, pop, f, end_fittness) ==
    IF policy = "LocalFittest" THEN pop[1].fittness <= end_fittness
    ELSE f.fittness <= end_fittness

loop_left ==
    CASE type_of_simulation.kind = "EndIteration" ->
             end_iteration_reached(steps, type_of_simulation.val)
      [] type_of_simulation.kind = "EndFactor" ->
             end_factor_reached(improvement_factor, type_of_simulation.val)
      [] type_of_simulation.kind = "EndFittness" ->
             end_fittness_reached(type_of_fittest, population, fittest,
                                  type_of_simulation.val)

\* run up to the match: population[0] of an empty vector panics.
run_start ==
    /\ pc = "ready"
    /\ IF population = <<>>
       THEN /\ pc' = "panic"
            /\ UNCHANGED <<original_fittness, run_locals>>
       ELSE /\ pc' = "loop"
            /\ original_fittness' = calculate_fittness(population[1].individual)
            /\ fittest' = population[1]
            /\ iter' = 0
            /\ steps' = 0
            /\ len_before' = Len(population)
            /\ lowest' = lowest_of(population, F64_MAX)
    /\ UNCHANGED <<result, type_of_simulation, type_of_fittest, num_of_individuals,
                   improvement_factor, population, iteration_counter,
                   outside_simulation>>

\* One more turn of the loop of run that matches the configuration.
loop_turn(policy) ==
    /\ pc = "loop"
    /\ type_of_fittest = policy
    /\ ~loop_left
    /\ type_of_simulation.kind # "EndIteration" => steps < MaxSteps
    /\ steps' = steps + 1
    /\ iter' = IF type_of_simulation.kind = "EndIteration" THEN iter ELSE iter + 1
    /\ UNCHANGED <<pc, result, type_of_simulation, type_of_fittest,
                   num_of_individuals, original_fittness, iteration_counter,
                   len_before, outside_simulation>>

run_body_global_fittest ==
    /\ loop_turn("GlobalFittest")
    /\ \E mutated \in mutated_populations(population) :
          /\ fittest' = find_fittest(mutated, fittest)
          /\ population' = copy_to_others(mutated, fittest')
          /\ lowest' = lowest_of(mutated, lowest)
    /\ UNCHANGED improvement_factor

run_body_local_fittest ==
    /\ loop_turn("LocalFittest")
    /\ \E mutated \in mutated_populations(population) :
          /\ fittest' = find_fittest(mutated, population[1])
          /\ population' = copy_to_others(mutated, fittest')
          /\ lowest' = lowest_of(mutated, lowest)
    /\ improvement_factor' = Div(fittest'.fittness, original_fittness)

run_body_random_fittest ==
    /\ loop_turn("RandomFittest")
    /\ \E mutated \in mutated_populations(population) :
          /\ fittest' = find_fittest(mutated, fittest)
          /\ lowest' = lowest_of(mutated, lowest)
          /\ \E index \in 1 .. Len(mutated) :
                population' = copy_to_index(mutated, fittest', index)
    /\ improvement_factor' = Div(fittest'.fittness, original_fittness)

\* run without its final sort.
sort_skipped(pop) == pop

\* population.sort_by(|a, b| a.fittness.partial_cmp(&b.fittness)): a stable
\* sort, as an insertion sort.
RECURSIVE insert_sorted(_, _)
insert_sorted(s, w) ==
    IF s = <<>> THEN <<w>>
    ELSE IF s[Len(s)].fittness <= w.fittness THEN Append(s, w)
    ELSE Append(insert_sorted(SubSeq(s, 1, Len(s) - 1), w), s[Len(s)])

RECURSIVE sort_by_fittness(_)
sort_by_fittness(pop) ==
    IF pop = <<>> THEN <<>>
    ELSE insert_sorted(sort_by_fittness(SubSeq(pop, 1, Len(pop) - 1)), pop[Len(pop)])

\* The loop is left: run's epilogue.
run_exit ==
    /\ pc = "loop"
    /\ loop_left
    /\ population' = sort_by_fittness(population)
    /\ iter' = IF type_of_simulation.kind = "EndIteration"
               THEN type_of_simulation.val ELSE iter
    /\ iteration_counter' = iter'
    /\ pc' = "done"
    /\ UNCHANGED <<result, type_of_simulation, type_of_fittest, num_of_individuals,
                   improvement_factor, original_fittness, fittest, steps,
                   len_before, lowest, outside_simulation>>

Run ==
    \/ run_start
    \/ run_body_global_fittest
    \/ run_body_local_fittest
    \/ run_body_random_fittest
    \/ run_exit

Next == Builder \/ Run

\* ------------------------------------------- select/max.rs: the selector

\* Individual::calculate_fitness of population.rs and select/max.rs: the same
\* score of a gene under the spelling of the newer trait.  Population sorts
\* it ascending, MaximizeSelector ranks it descending.
calculate_fitness(g) == calculate_fittness(g)

\* MaximizeSelector::new(count).
MaximizeSelector(count) == [count |-> count]

\* The test of select that lets a population exactly twice count through.
select_refuses_above_half(count, len) ==
    count = 0 \/ count % 2 # 0 \/ count * 2 > len

\* select: the condition of its first statement.
select_refuses(count, len) ==
    count = 0 \/ count % 2 # 0 \/ count * 2 >= len

\* The scoring of a caller that ranks lower fitness higher.
scored_of_inverted(slice) ==
    [i \in 1 .. Len(slice) |-> <<0 - calculate_fitness(slice[i]), slice[i]>>]

\* select: population.iter().map(|i| (i.calculate_fitness(), i.clone())).
scored_of(slice) ==
    [i \in 1 .. Len(slice) |-> <<calculate_fitness(slice[i]), slice[i]>>]

\* select without its sort_by.
sort_by_score_skipped(scored) == scored

\* The sort that puts an element before the earlier ones of its score.
RECURSIVE insert_by_score_ties_last(_, _)
insert_by_score_ties_last(s, e) ==
    IF s = <<>> THEN <<e>>
    ELSE IF s[Len(s)][1] > e[1] THEN Append(s, e)
    ELSE Append(insert_by_score_ties_last(SubSeq(s, 1, Len(s) - 1), e), s[Len(s)])

\* scored.sort_by(|x, y| y.0.partial_cmp(&x.0)): stable, descending by score.
RECURSIVE insert_by_score(_, _)
insert_by_score(s, e) ==
    IF s = <<>> THEN <<e>>
    ELSE IF s[Len(s)][1] >= e[1] THEN Append(s, e)
    ELSE Append(insert_by_score(SubSeq(s, 1, Len(s) - 1), e), s[Len(s)])

RECURSIVE sort_by_score(_)
sort_by_score(scored) ==
    IF scored = <<>> THEN <<>>
    ELSE insert_by_score(sort_by_score(SubSeq(scored, 1, Len(scored) - 1)),
                         scored[Len(scored)])

\* scored.into_iter().map(|(_, i)| i).take(count).
take(scored, count) ==
    [i \in 1 .. (IF count < Len(scored) THEN count ELSE Len(scored)) |->
        scored[i][2]]

\* while index < trunc.len() { push((trunc[index], trunc[index + 1])); index += 2 }
pair_up(trunc) ==
    [k \in 1 .. (Len(trunc) \div 2) |-> <<trunc[2 * k - 1], trunc[2 * k]>>]

\* MaximizeSelector::select.  panic! on a refused count; trunc[index + 1]
\* past the end of an odd trunc panics as well.
select(sel, slice) ==
    IF select_refuses(sel.count, Len(slice))
    THEN [outcome |-> "panic", parents |-> <<>>]
    ELSE LET trunc == take(sort_by_score(scored_of(slice)), sel.count)
         IN  IF Len(trunc) % 2 # 0
             THEN [outcome |-> "panic", parents |-> <<>>]
             ELSE [outcome |-> "Ok", parents |-> pair_up(trunc)]

\* ------------------------------------------- population.rs: the Population

\* run_body prints population[0], [1] and [2] after the truncation.
PrintedRanks == 3

\* Individual::reset: back to the canonical start, the worst individual.
reset(g) == MaxGene

\* Individual::crossover: one child of two parents, between the two.
crossover(a, b) == (a + b) \div 2

\* struct IndividualWrapper of the Population.
PopulationWrapper(g, f, m, id) ==
    [individual |-> g, fitness |-> f, num_of_mutations |-> m, id |-> id]

\* The schedule test that holds for every population.
schedule_always_enabled(end) == TRUE

\* if self.reset_limit_end > 0.
schedule_enabled(end) == end > 0

\* The reset test of the doc comment of reset_counter.
reset_due_at_limit(counter, limit) == counter >= limit

\* if self.reset_counter > self.reset_limit.
reset_due(counter, limit) == counter > limit

\* The threshold advance that never goes back to the start.
advance_limit_unwrapped(limit, increment, start, end) == limit + increment

\* The threshold advance that wraps only past the end.
advance_limit_past_end(limit, increment, start, end) ==
    IF limit + increment > end THEN start ELSE limit + increment

\* reset_limit += reset_limit_increment; back to reset_limit_start at the end.
advance_limit(limit, increment, start, end) ==
    IF limit + increment >= end THEN start ELSE limit + increment

\* The reset branch without its loop over the population.
reset_all_skipped(pop) == pop

\* for wrapper in &mut self.population { reset(); fitness = calculate_fitness() }
reset_all(pop) ==
    [i \in 1 .. Len(pop) |->
        [pop[i] EXCEPT !.individual = reset(@),
                       !.fitness = calculate_fitness(reset(pop[i].individual))]]

\* The plateau-escape block of run_body: the Population it leaves behind.
plateau_escape(p) ==
    IF ~schedule_enabled(p.reset_limit_end) THEN p
    ELSE IF ~reset_due(p.reset_counter + 1, p.reset_limit)
    THEN [p EXCEPT !.reset_counter = @ + 1]
    ELSE [p EXCEPT !.reset_limit = advance_limit(@, p.reset_limit_increment,
                                                 p.reset_limit_start,
                                                 p.reset_limit_end),
                   !.reset_counter = 0,
                   !.population = reset_all(@)]

\* Whether that block takes its reset branch.
reset_fires(p) ==
    /\ schedule_enabled(p.reset_limit_end)
    /\ reset_due(p.reset_counter + 1, p.reset_limit)

\* One wrapper of the mutation loop: num_of_mutations mutate calls, rescored.
mutate_wrapper(w) ==
    {[w EXCEPT !.individual = g, !.fitness = calculate_fitness(g)] :
        g \in mutate_times(w.individual, w.num_of_mutations)}

\* The mutation loop over the first n wrappers: every outcome it can have.
RECURSIVE mutate_all(_, _)
mutate_all(pop, n) ==
    IF n = 0 THEN {<<>>}
    ELSE {Append(q, w) : q \in mutate_all(pop, n - 1), w \in mutate_wrapper(pop[n])}

\* run_body without the originals.
extend_skipped(mutated, orig) == mutated

\* self.population.extend(orig_population.iter().cloned()).
extend(mutated, orig) == mutated \o orig

\* The crossover loop pushing its children unscored.
children_of_unscored(parents, id) ==
    [k \in 1 .. Len(parents) |->
        PopulationWrapper(crossover(parents[k][1], parents[k][2]), F64_MAX, 1, id)]

\* The crossover loop: one pushed wrapper per pair of parents.
children_of(parents, id) ==
    [k \in 1 .. Len(parents) |->
        PopulationWrapper(crossover(parents[k][1], parents[k][2]),
                          calculate_fitness(crossover(parents[k][1], parents[k][2])),
                          1, id)]

\* run_body without its sort.
sort_population_skipped(pop) == pop

\* self.population.sort(): stable, ascending by cached fitness.
RECURSIVE sort_insert(_, _)
sort_insert(s, w) ==
    IF s = <<>> THEN <<w>>
    ELSE IF s[Len(s)].fitness <= w.fitness THEN Append(s, w)
    ELSE Append(sort_insert(SubSeq(s, 1, Len(s) - 1), w), s[Len(s)])

RECURSIVE sort_population(_)
sort_population(pop) ==
    IF pop = <<>> THEN <<>>
    ELSE sort_insert(sort_population(SubSeq(pop, 1, Len(pop) - 1)), pop[Len(pop)])

\* run_body without its truncation.
truncate_skipped(pop, n) == pop

\* self.population.truncate(num_of_individuals).
truncate(pop, n) == SubSeq(pop, 1, IF n < Len(pop) THEN n ELSE Len(pop))

\* run_body without its last loop.
restore_skipped(pop, orig) == pop

\* The last loop of run_body: num_of_mutations by position, from the originals.
restore_num_of_mutations(pop, orig) ==
    [i \in 1 .. Len(pop) |->
        IF i <= Len(orig)
        THEN [pop[i] EXCEPT !.num_of_mutations = orig[i].num_of_mutations]
        ELSE pop[i]]

\* The individuals of a vector of wrappers.
individuals_of(pop) == [i \in 1 .. Len(pop) |-> pop[i].individual]

\* run_body calls explored on a population without a reset schedule.
MaxCalls == 3
\* The largest count a selector is built with.
MaxCount == 4

\* The sizes of a population: every rank that run_body prints exists.
PopulationSizes == PrintedRanks .. MaxPop
\* The individual every wrapper starts from.
StartGenes == {1, MaxGene}
\* num_of_mutations by position: 1 everywhere, or increasing.
MutationRates == {"constant", "increasing"}
\* <<reset_limit_start, reset_limit_end, reset_limit_increment>>; end 0
\* disables the schedule.
ResetSchedules == {<<1, 3, 1>>, <<2, 5, 2>>, <<1, 0, 1>>}
\* examples/ocr2: reset_limit_start(100), reset_limit_end(1000),
\* reset_limit_increment(100).
ExampleSchedule == <<100, 1000, 100>>
SelectorCounts == 0 .. MaxCount

num_of_mutations_at(rate, i) ==
    CASE rate = "constant" -> 1
      [] rate = "increasing" -> i
      [] rate = "none" -> 0

\* A Population as its builder hands it out: unscored wrappers, the counter
\* at 0 and the threshold at its start.
new_population(size, g, rate, schedule) ==
    [num_of_individuals |-> size,
     population |-> [i \in 1 .. size |->
                        PopulationWrapper(g, F64_MAX, num_of_mutations_at(rate, i), 1)],
     reset_limit |-> schedule[1],
     reset_limit_start |-> schedule[1],
     reset_limit_end |-> schedule[2],
     reset_limit_increment |-> schedule[3],
     reset_counter |-> 0,
     id |-> 1,
     fitness_counter |-> 0]

\* No Population and no selector: the state of both under Spec.
NoPopulation ==
    /\ self = new_population(0, 0, "none", <<0, 0, 0>>)
    /\ can_crossover = FALSE
    /\ pstate = "idle"
    /\ orig_population = <<>>
    /\ bred = <<>>
    /\ handed_parents = <<>>
    /\ reset_fired = FALSE
    /\ calls_since_reset = 0
    /\ calls_at_reset = 0

NoSelection ==
    /\ sel_population = <<>>
    /\ sel_result = [outcome |-> "none", parents |-> <<>>]

PopulationInit ==
    /\ \/ /\ \E size \in PopulationSizes, g \in StartGenes, rate \in MutationRates,
                schedule \in ResetSchedules :
                self = new_population(size, g, rate, schedule)
          /\ \/ /\ can_crossover = TRUE
                /\ selector \in {MaximizeSelector(c) : c \in SelectorCounts}
             \/ /\ can_crossover = FALSE
                /\ selector = MaximizeSelector(0)
       \/ /\ self = new_population(PrintedRanks, MaxGene, "none", ExampleSchedule)
          /\ can_crossover = FALSE
          /\ selector = MaximizeSelector(0)
    /\ pstate = "idle"
    /\ orig_population = <<>>
    /\ bred = <<>>
    /\ handed_parents = <<>>
    /\ reset_fired = FALSE
    /\ calls_since_reset = 0
    /\ calls_at_reset = 0

\* for wrapper in &mut self.population { fitness = calculate_fitness() }
rescore_all(pop) ==
    [i \in 1 .. Len(pop) |->
        [pop[i] EXCEPT !.fitness = calculate_fitness(pop[i].individual)]]

\* Population::calculate_fitness: every wrapper rescored.
population_calculate_fitness ==
    /\ pstate = "idle"
    /\ self' = [self EXCEPT !.population = rescore_all(@)]
    /\ UNCHANGED <<can_crossover, pstate, orig_population, bred, handed_parents,
                   reset_fired,
                   calls_since_reset, calls_at_reset, selector_vars, pool_vars,
                   vars>>

\* Population::run_body(&selector).
run_body ==
    /\ pstate = "idle"
    /\ ~schedule_enabled(self.reset_limit_end) => calls_since_reset < MaxCalls
    /\ LET escaped == plateau_escape(self)
           orig == escaped.population
       IN  /\ \E mutated \in mutate_all(orig, Len(orig)) :
                 LET working == extend(mutated, orig)
                     chosen == IF can_crossover
                               THEN select(selector, individuals_of(working))
                               ELSE [outcome |-> "Ok", parents |-> <<>>]
                     bred_set == working \o children_of(chosen.parents, escaped.id)
                     kept == truncate(sort_population(bred_set),
                                      escaped.num_of_individuals)
                 IN  /\ bred' = bred_set
                     /\ handed_parents' = chosen.parents
                     /\ IF chosen.outcome = "panic"
                        THEN /\ pstate' = "panic"
                             /\ self' = [escaped EXCEPT !.population = working]
                        ELSE IF Len(kept) < PrintedRanks
                        THEN /\ pstate' = "panic"
                             /\ self' = [escaped EXCEPT !.population = kept]
                        ELSE /\ pstate' = "idle"
                             /\ self' = [escaped EXCEPT !.population =
                                            restore_num_of_mutations(kept, orig)]
           /\ orig_population' = orig
           /\ reset_fired' = reset_fires(self)
           /\ calls_since_reset' = IF reset_fires(self) THEN 0
                                   ELSE calls_since_reset + 1
           /\ calls_at_reset' = IF reset_fires(self) THEN calls_since_reset + 1
                                ELSE calls_at_reset
    /\ UNCHANGED <<can_crossover, selector_vars, pool_vars, vars>>

PopulationNext == population_calculate_fitness \/ run_body

\* ------------------------------------------------- select called directly

\* The longest slice of arbitrary individuals select is called on.
MaxSelLen == 5

RECURSIVE slices(_)
slices(n) ==
    IF n = 0 THEN {<<>>}
    ELSE LET shorter == slices(n - 1)
         IN  shorter \cup {Append(s, g) : s \in {t \in shorter : Len(t) = n - 1},
                                          g \in Genes}

\* The slices select is called on: every short one, and every working set
\* of run_body made of a vector and its clones.
SliceInputs ==
    slices(MaxSelLen) \cup {s \o s : s \in {t \in slices(MaxSelLen) : Len(t) = MaxSelLen}}

SelectionInit ==
    /\ selector \in {MaximizeSelector(c) : c \in SelectorCounts}
    /\ sel_population \in SliceInputs
    /\ sel_result = [outcome |-> "none", parents |-> <<>>]

\* selector.select(&population).
select_call ==
    /\ sel_result.outcome = "none"
    /\ sel_result' = select(selector, sel_population)
    /\ UNCHANGED <<selector, sel_population, population_vars, pool_vars, vars>>

SelectionNext == select_call

\* ------------------------------------ lib.rs: pool.for_, worker by worker

\* The threads a pool is built with.
MaxThreads == 2
ThreadInputs == 1 .. MaxThreads

\* Individual::mutate of a deterministic individual: always the same one of
\* the neighbouring genes.
mutate_fixed(g) == CHOOSE h \in mutate(g) : \A k \in mutate(g) : h <= k

\* The populations a builder hands to run: initial_population_num_mut with
\* one rate for all or with rates rising from 0, or increasing_mutation_rate.
PoolPopulations ==
    {wrap_all(v, m) : v \in PopulationInputs, m \in NumMutInputs \cup {1}}
       \cup {[i \in 1 .. Len(v) |-> IndividualWrapper(v[i], F64_MAX, i)] :
                v \in PopulationInputs}
       \cup {[i \in 1 .. Len(v) |-> IndividualWrapper(v[i], F64_MAX, i - 1)] :
                v \in PopulationInputs}

\* population.iter_mut(): every slot is handed to the pool once.
claimable(status) == status = "queued"

\* The loop that runs 0..=num_of_mutations.
mutations_left_inclusive(w) == w.num_of_mutations + 1

\* for _ in 0..wrapper.num_of_mutations: the mutate calls ahead of a worker.
mutations_left(w) == w.num_of_mutations

\* A for_ that returns once every slot has been handed out.
for_returns_after_dispatch(status) ==
    \A i \in 1 .. Len(status) : status[i] # "queued"

\* pool.for_ returns: every closure has finished.
for_returns(status) == \A i \in 1 .. Len(status) : status[i] = "done"

\* The state of a pool.for_ that is about to start on pop.
dispatch(pop, f, threads, generation) ==
    [phase |-> "for_",
     population |-> pop,
     start |-> pop,
     fittest |-> f,
     threads |-> threads,
     generation |-> generation,
     status |-> [i \in 1 .. Len(pop) |-> "queued"],
     left |-> [i \in 1 .. Len(pop) |-> 0],
     taken |-> [i \in 1 .. Len(pop) |-> 0],
     mutations |-> [i \in 1 .. Len(pop) |-> 0],
     rescored |-> [i \in 1 .. Len(pop) |-> 0]]

NoPool == pool = [phase |-> "none"]

\* run up to the first run body.
PoolInit ==
    \E pop \in PoolPopulations, threads \in ThreadInputs :
       pool = dispatch(pop, pop[1], threads, 0)

running_workers == {j \in 1 .. Len(pool.status) : pool.status[j] = "running"}

\* A free worker takes the closure of one slot.
pool_take ==
    /\ pool.phase = "for_"
    /\ Cardinality(running_workers) < pool.threads
    /\ \E i \in 1 .. Len(pool.population) :
          /\ claimable(pool.status[i])
          /\ pool' = [pool EXCEPT !.status[i] = "running",
                                  !.left[i] = mutations_left(pool.population[i]),
                                  !.taken[i] = @ + 1]
    /\ UNCHANGED <<vars, population_vars, selector_vars>>

\* wrapper.individual.mutate(), one turn of the closure's loop.
pool_mutate ==
    /\ pool.phase # "none"
    /\ \E i \in running_workers :
          /\ pool.left[i] > 0
          /\ pool' = [pool EXCEPT !.population[i].individual = mutate_fixed(@),
                                  !.left[i] = @ - 1,
                                  !.mutations[i] = @ + 1]
    /\ UNCHANGED <<vars, population_vars, selector_vars>>

\* wrapper.fittness = wrapper.individual.calculate_fittness(): the closure ends.
pool_rescore ==
    /\ pool.phase # "none"
    /\ \E i \in running_workers :
          /\ pool.left[i] = 0
          /\ pool' = [pool EXCEPT !.population[i].fittness =
                                      calculate_fittness(pool.population[i].individual),
                                  !.status[i] = "done",
                                  !.rescored[i] = @ + 1]
    /\ UNCHANGED <<vars, population_vars, selector_vars>>

\* pool.for_ returns to the run body.
pool_join ==
    /\ pool.phase = "for_"
    /\ for_returns(pool.status)
    /\ pool' = [pool EXCEPT !.phase = "joined"]
    /\ UNCHANGED <<vars, population_vars, selector_vars>>

\* fittest = find_fittest(simulation, fittest).
pool_find ==
    /\ pool.phase = "joined"
    /\ pool' = [pool EXCEPT !.phase = "found",
                            !.fittest = find_fittest(pool.population, pool.fittest)]
    /\ UNCHANGED <<vars, population_vars, selector_vars>>

\* The rest of run_body_global_fittest, and the next generation's for_.
pool_propagate ==
    /\ pool.phase = "found"
    /\ LET pop == copy_to_others(pool.population, pool.fittest)
       IN  pool' = IF pool.generation + 1 < MaxSteps
                   THEN dispatch(pop, pool.fittest, pool.threads, pool.generation + 1)
                   ELSE [pool EXCEPT !.phase = "end", !.population = pop]
    /\ UNCHANGED <<vars, population_vars, selector_vars>>

PoolNext ==
    \/ pool_take
    \/ pool_mutate
    \/ pool_rescore
    \/ pool_join
    \/ pool_find
    \/ pool_propagate

\* ------------------------------------------------------------ the claims

Kind == type_of_simulation.kind
Target == type_of_simulation.val
\* At a generation boundary: a step has run and the loop test comes next.
AtBoundary == pc = "loop" /\ steps > 0
\* The builder filled the population to the configured size.
FullPopulation ==
    Len(population) = num_of_individuals /\ Len(population) >= MinIndividuals

\* C1: under EndFactor, at a generation boundary where best fitness over a
\* positive baseline fitness is at most the target ratio, run leaves the loop:
\* its next step is the exit and not another generation, whatever the policy.
C1_StopsAtFactor ==
    [][(AtBoundary /\ Kind = "EndFactor" /\ original_fittness > 0
          /\ FactorLeq(Div(fittest.fittness, original_fittness), Target))
        => pc' = "done"]_vars

\* C2: after every generation step, improvement_factor is the fitness of the
\* fittest that step returned over original_fittness, whatever the policy.
C2_FactorIsBestOverBaseline ==
    (pc \in {"loop", "done"} /\ steps > 0)
        => improvement_factor = Div(fittest.fittness, original_fittness)

\* C3: from one generation boundary of run to the next, the fitness of the
\* fittest carried along never increases, whatever the policy.
C3_FittestNeverIncreases ==
    [][(pc = "loop" /\ pc' = "loop") => fittest'.fittness <= fittest.fittness]_vars

\* C3 witness: a third boundary under local propagation, where a mutant worse
\* than the carried fittest was passed over.
C3_Witness ==
    /\ AtBoundary /\ steps >= 2 /\ type_of_fittest = "LocalFittest"
    /\ fittest.fittness < F64_MAX
    /\ \E i \in 1 .. Len(population) : population[i].fittness > fittest.fittness

\* C4: at every generation boundary and after run, every wrapper's cached
\* fittness is calculate_fittness of the individual it stores (stated for the
\* populations the builder filled to num_of_individuals >= 3).
C4_CachedFittnessIsCurrent ==
    ((AtBoundary \/ pc = "done") /\ FullPopulation)
        => \A i \in 1 .. Len(population) :
               population[i].fittness = calculate_fittness(population[i].individual)

\* C5: finalize returns LowIndividuals below 3 individuals, else LowIterration
\* for EndIteration(n) with n < 10, else Ok; a refusal hands out no Simulation,
\* so none is ever run.
C5_FinalizeRefusals ==
    result # "none" =>
        /\ num_of_individuals < 3 => result = "LowIndividuals"
        /\ (num_of_individuals >= 3 /\ Kind = "EndIteration" /\ Target < 10)
               => result = "LowIterration"
        /\ (num_of_individuals >= 3 /\ ~(Kind = "EndIteration" /\ Target < 10))
               => result = "Ok"
        /\ result \in {"LowIndividuals", "LowIterration"} <=> pc = "refused"

\* C5 witness: enough individuals, too few iterations.
C5_Witness ==
    /\ result = "LowIterration" /\ pc = "refused"
    /\ num_of_individuals >= 3 /\ Kind = "EndIteration" /\ Target < 10

\* C6: a Simulation finalize returned in Ok holds at least 3 candidates, as
\* many as num_of_individuals, and run never aborts on its population.
C6_FinalizedPopulationIsFull ==
    result = "Ok" =>
        /\ Len(population) >= 3
        /\ Len(population) = num_of_individuals
        /\ pc # "panic"

\* C7: under EndFittness(t), run leaves the loop at a generation boundary
\* exactly when the carried fittest's fitness is <= t, and leaves it with that
\* fittest: on exit the fitness is <= t, at every boundary it went on from > t.
C7_StopsAtFittness ==
    [][(pc = "loop" /\ Kind = "EndFittness")
        => /\ pc' = "done" <=> fittest.fittness <= Target
           /\ pc' = "done" => fittest' = fittest]_vars

\* C7 witness: a local-propagation run that went on from its first boundary and
\* left the loop at a later one, its fittest at or below the target.
C7_Witness ==
    /\ pc = "done" /\ Kind = "EndFittness" /\ type_of_fittest = "LocalFittest"
    /\ steps >= 2 /\ fittest.fittness <= Target

\* C8: under EndIteration(N), run executes exactly N generation steps and
\* records iteration_counter = N.
C8_ExactlyNGenerations ==
    (pc = "done" /\ Kind = "EndIteration")
        => steps = Target /\ iteration_counter = Target

\* C8 witness: a finished run of 10 generations under random propagation that
\* found a solution on its way.
C8_Witness ==
    /\ pc = "done" /\ Kind = "EndIteration" /\ iteration_counter = 10
    /\ type_of_fittest = "RandomFittest" /\ fittest.fittness = 0

\* C9: after run, the first entry of the sorted population holds the fittest
\* candidate found, cached with the lowest fitness any generation recorded
\* (stated for the populations the builder filled to num_of_individuals >= 3).
C9_FirstEntryIsGlobalFittest ==
    (pc = "done" /\ FullPopulation)
        => /\ population[1].fittness = lowest
           /\ calculate_fittness(population[1].individual) = lowest

\* C10: after run, the population is sorted ascending by cached fitness and is
\* as long as it was before the run.
C10_SortedAfterRun ==
    pc = "done"
        => /\ \A i \in 1 .. Len(population) - 1 :
                  population[i].fittness <= population[i + 1].fittness
           /\ Len(population) = len_before

\* C10 witness: a finished run under random propagation whose entries differ
\* in fitness.
C10_Witness ==
    /\ pc = "done" /\ type_of_fittest = "RandomFittest" /\ Len(population) >= 3
    /\ population[1].fittness < population[Len(population)].fittness

\* mutate_times, tabulated over the genes and the mutation counts a builder
\* can set.
MutantsAfter == [g \in Genes |-> [n \in 0 .. MaxPop |-> mutate_times(g, n)]]
\* A generation step under the given propagation policy.
StepUnder(policy) ==
    pc = "loop" /\ type_of_fittest = policy /\ steps' = steps + 1
\* Slot i after the step holds what the mutation loop made of slot i before
\* it: num_of_mutations mutate calls, then the fitness of the result.
KeepsOwnMutant(i) ==
    /\ population'[i].num_of_mutations = population[i].num_of_mutations
    /\ population'[i].fittness = calculate_fittness(population'[i].individual)
    /\ population'[i].individual
          \in MutantsAfter[population[i].individual][population[i].num_of_mutations]

\* C22: a step under global propagation leaves a copy of the fittest
\* individual in every slot but the last, and in the last slot its own
\* mutated individual with that individual's fitness.
C22_GlobalLeavesLastSlot ==
    [][StepUnder("GlobalFittest")
          => /\ Len(population') = Len(population)
             /\ \A i \in 1 .. Len(population) - 1 :
                   population'[i].individual = fittest'.individual
             /\ KeepsOwnMutant(Len(population))]_vars

\* C23: a step under random propagation writes the fittest individual into
\* one slot; every other slot keeps its own mutated individual and fitness.
C23_RandomOverwritesOneSlot ==
    [][StepUnder("RandomFittest")
          => /\ Len(population') = Len(population)
             /\ \E index \in 1 .. Len(population) :
                   /\ population'[index].individual = fittest'.individual
                   /\ \A j \in 1 .. Len(population) :
                         j # index => KeepsOwnMutant(j)]_vars

\* C23 witness: after a step under random propagation one slot holds the
\* fittest individual under the fitness of the individual it replaced, and
\* no other slot holds the fittest individual.
C23_Witness ==
    /\ AtBoundary /\ type_of_fittest = "RandomFittest" /\ Len(population) >= 3
    /\ \E index \in 1 .. Len(population) :
          /\ population[index].individual = fittest.individual
          /\ population[index].fittness # fittest.fittness
          /\ \A j \in 1 .. Len(population) :
                j # index => population[j].individual # fittest.individual

\* C25: at a generation boundary with a positive baseline and a best fitness
\* at most the baseline, the recorded improvement factor is in (0, 1].
C25_FactorInUnitInterval ==
    (AtBoundary /\ original_fittness > 0 /\ fittest.fittness <= original_fittness)
        => /\ improvement_factor[2] > 0
           /\ improvement_factor[1] > 0
           /\ improvement_factor[1] <= improvement_factor[2]

\* C28: under local propagation the baseline of the next step, the first
\* slot, equals the fittest the previous step returned (the initial candidate
\* before the first step) in individual and fitness.
C28_LocalBaselineIsReturnedFittest ==
    (pc = "loop" /\ type_of_fittest = "LocalFittest")
        => /\ population[1].individual = fittest.individual
           /\ population[1].fittness = fittest.fittness

\* The target of a fitness-bounded or factor-bounded run is below the
\* sentinel f64::MAX the builder starts fitness and improvement_factor at.
TargetBelowSentinel ==
    \/ Kind = "EndFittness" /\ Target < F64_MAX
    \/ Kind = "EndFactor" /\ ~FactorLeq(Div(F64_MAX, 1), Target)

\* C34: after run has returned, iteration_counter is the number of
\* generation steps run executed, whatever the termination mode and the
\* policy; and a fitness-bounded or factor-bounded run whose target is below
\* the sentinel has executed at least one.
C34_CounterIsGenerationsRun ==
    pc = "done"
        => /\ iteration_counter = steps
           /\ TargetBelowSentinel => steps >= 1

\* C34 witness: a fitness-bounded run has returned after one generation,
\* counted as one, on a population whose first individual met the target
\* before that generation.
C34_Witness ==
    /\ pc = "done" /\ Kind = "EndFittness" /\ TargetBelowSentinel
    /\ original_fittness <= Target
    /\ steps = 1 /\ iteration_counter = 1

\* ------------------------------------------ the claims on the Population

\* A run_body call has returned.
AfterCall == pstate = "idle" /\ orig_population # <<>>
\* A step of run_body, as opposed to one of Population::calculate_fitness.
CallStep == calls_since_reset' # calls_since_reset
ScheduleEnabled == self.reset_limit_end > 0
Sorted(pop) ==
    \A i \in 1 .. Len(pop) - 1 : pop[i].fitness <= pop[i + 1].fitness
Accurate(pop) ==
    \A i \in 1 .. Len(pop) : pop[i].fitness = calculate_fitness(pop[i].individual)

\* C11: after every run_body call on a population of num_of_individuals
\* wrappers, the population has num_of_individuals wrappers again.
C11_LengthIsTarget ==
    AfterCall => Len(self.population) = self.num_of_individuals

\* C11 witness: a call that reset the population and pushed children has
\* returned.
C11_Witness ==
    /\ AfterCall /\ reset_fired /\ can_crossover
    /\ ~select_refuses(selector.count, 2 * Len(orig_population))
    /\ Len(self.population) = self.num_of_individuals

\* C12: after every run_body call the population is sorted ascending by
\* cached fitness, the restored mutation intensities included.
C12_SortedAfterCall == AfterCall => Sorted(self.population)

\* C12 witness: a call has returned a population of different fitnesses and
\* different mutation intensities.
C12_Witness ==
    /\ AfterCall
    /\ self.population[1].fitness < self.population[Len(self.population)].fitness
    /\ self.population[1].num_of_mutations
          < self.population[Len(self.population)].num_of_mutations

C14_ResetWhenCounterReachesLimit ==
    [][(ScheduleEnabled /\ CallStep)
          => (reset_fired' <=> self.reset_counter + 1 >= self.reset_limit)]_population_vars

\* The thresholds of a schedule: start, start + increment, ... below end.
LimitOnCycle ==
    \/ self.reset_limit = self.reset_limit_start
    \/ /\ self.reset_limit < self.reset_limit_end
       /\ self.reset_limit > self.reset_limit_start
       /\ (self.reset_limit - self.reset_limit_start) % self.reset_limit_increment = 0

\* C15: a call that fires the reset leaves reset_counter 0, every candidate
\* reset and rescored, and reset_limit advanced by the increment, or back at
\* reset_limit_start when the advanced value is reset_limit_end or more; the
\* threshold stays on start, start + increment, ...
C15_ResetEffect ==
    [][(CallStep /\ reset_fired')
          => /\ self'.reset_counter = 0
             /\ self'.reset_limit =
                   IF self.reset_limit + self.reset_limit_increment
                         >= self.reset_limit_end
                   THEN self.reset_limit_start
                   ELSE self.reset_limit + self.reset_limit_increment
             /\ Len(orig_population') = Len(self.population)
             /\ \A i \in 1 .. Len(orig_population') :
                   /\ orig_population'[i].individual = reset(self.population[i].individual)
                   /\ orig_population'[i].fitness
                         = calculate_fitness(reset(self.population[i].individual))
             /\ LimitOnCycle']_population_vars

\* C15 witness: a reset has just brought the threshold back to its start from
\* a higher one.
C15_Witness ==
    /\ reset_fired /\ pstate = "idle"
    /\ self.reset_limit = self.reset_limit_start
    /\ calls_at_reset > self.reset_limit_start + 1
    /\ self.reset_counter = 0

\* C16: with reset_limit_end = 0 no step changes reset_counter or
\* reset_limit, and no call takes the reset branch.
C16_DisabledScheduleIsInert ==
    [][self.reset_limit_end = 0
          => /\ self'.reset_counter = self.reset_counter
             /\ self'.reset_limit = self.reset_limit
             /\ ~reset_fired']_population_vars

\* C16 witness: MaxCalls calls have returned on a population without a
\* schedule.
C16_Witness ==
    /\ AfterCall /\ self.reset_limit_end = 0 /\ calls_since_reset = MaxCalls
    /\ self.reset_counter = 0 /\ self.reset_limit = self.reset_limit_start

C26_MutationScheduleKept ==
    [][(CallStep /\ pstate' = "idle")
          => /\ Len(self'.population) = Len(self.population)
             /\ \A i \in 1 .. Len(self.population) :
                   self'.population[i].num_of_mutations
                      = self.population[i].num_of_mutations]_population_vars

\* C26 witness: a call that reset the population has returned, and the
\* wrapper the sort put first came from a slot of another num_of_mutations.
C26_Witness ==
    /\ AfterCall /\ reset_fired
    /\ sort_population(bred)[1].num_of_mutations
          # self.population[1].num_of_mutations
    /\ self.population[1].num_of_mutations = orig_population[1].num_of_mutations

\* What a population can hold right after a reset generation: the reset
\* individual, what each slot's mutations make of it, and children of those.
ResetIndividuals == {reset(g) : g \in Genes}
ResetMutants ==
    UNION {mutate_times(r, self.population[i].num_of_mutations) :
              r \in ResetIndividuals, i \in 1 .. Len(self.population)}
ResetLineage ==
    LET parents == ResetIndividuals \cup ResetMutants
    IN  parents \cup {crossover(a, b) : a \in parents, b \in parents}

\* C29: after a call that fired the reset every candidate is a reset
\* individual, a mutant of one or a child of those, with its own fitness.
C29_ResetDiscardsProgress ==
    (AfterCall /\ reset_fired)
        => /\ \A i \in 1 .. Len(self.population) :
                 self.population[i].individual \in ResetLineage
           /\ Accurate(self.population)

\* C29 witness: the reset fired in a later call than the first, a mutant of
\* the reset individual survived, and some individual is outside the lineage.
C29_Witness ==
    /\ AfterCall /\ reset_fired /\ calls_at_reset >= 2
    /\ \E i \in 1 .. Len(self.population) :
          self.population[i].individual \notin ResetIndividuals
    /\ Genes \ ResetLineage # {}

\* The three parts of the working set of the last call.
Size == Len(orig_population)
Mutants == SubSeq(bred, 1, Size)
Snapshot == SubSeq(bred, Size + 1, 2 * Size)
Children == SubSeq(bred, 2 * Size + 1, Len(bred))
Called == orig_population # <<>>

\* C30: the working set of a call is the mutants followed by the unmutated
\* snapshot; with crossover, a returned call appended one child per pair the
\* selector returns on those, scored, with num_of_mutations 1 and the id of
\* the population; without crossover nothing is appended and no selector
\* count aborts the call.
C30_ChildrenAppended ==
    Called
        => /\ Len(bred) >= 2 * Size
           /\ Snapshot = orig_population
           /\ \A i \in 1 .. Size :
                 Mutants[i].num_of_mutations = orig_population[i].num_of_mutations
           /\ (can_crossover /\ pstate = "idle")
                 => LET chosen == select(selector, individuals_of(Mutants \o Snapshot))
                    IN  /\ chosen.outcome = "Ok"
                        /\ Len(Children) = Len(chosen.parents)
                        /\ 2 * Len(Children) = selector.count
                        /\ \A k \in 1 .. Len(Children) :
                              /\ Children[k].individual
                                    = crossover(chosen.parents[k][1], chosen.parents[k][2])
                              /\ Children[k].fitness
                                    = calculate_fitness(Children[k].individual)
                              /\ Children[k].num_of_mutations = 1
                              /\ Children[k].id = self.id
           /\ ~can_crossover => (Children = <<>> /\ pstate = "idle")

\* C30 witness: a call with crossover has returned after appending a child
\* that differs from both of its parents.
C30_Witness ==
    /\ AfterCall /\ can_crossover /\ Len(Children) = 1
    /\ LET chosen == select(selector, individuals_of(Mutants \o Snapshot))
       IN  /\ Children[1].individual # chosen.parents[1][1]
           /\ Children[1].individual # chosen.parents[1][2]

\* C32: between run_body calls on a population with 0 < reset_limit_start
\* < reset_limit_end, built with the counter at 0 and the threshold at its
\* start, reset_counter is at most reset_limit, and reset_limit is at least
\* reset_limit_start and below reset_limit_end.
C32_CounterAndLimitInRange ==
    (pstate = "idle" /\ 0 < self.reset_limit_start
        /\ self.reset_limit_start < self.reset_limit_end)
        => /\ self.reset_counter <= self.reset_limit
           /\ self.reset_limit_start <= self.reset_limit
           /\ self.reset_limit < self.reset_limit_end

\* C32 witness: a call has returned with the counter at the threshold, the
\* threshold above its start and one increment short of the end or less.
C32_Witness ==
    /\ AfterCall /\ 0 < self.reset_limit_start
    /\ self.reset_limit_start < self.reset_limit
    /\ self.reset_limit + self.reset_limit_increment >= self.reset_limit_end
    /\ self.reset_counter = self.reset_limit

\* The doubled working set select was called on, and the parents of the
\* pairs crossover got, pair by pair.
Working == individuals_of(Mutants \o Snapshot)
Handed ==
    [i \in 1 .. 2 * Len(handed_parents) |->
        handed_parents[(i + 1) \div 2][((i - 1) % 2) + 1]]

\* C31: the parents a returned run_body call handed to crossover are count
\* candidates of the doubled working set, and they are the ones of the
\* numerically highest fitness: as many of them lie above any fitness value
\* as the working set has there, up to count, and no candidate of the working
\* set has a higher fitness than the first parent.
C31_ParentsAreHighestFitness ==
    (Called /\ can_crossover /\ pstate = "idle")
        => /\ Len(Handed) = selector.count
           /\ \A g \in Genes :
                 Cardinality({i \in 1 .. Len(Handed) : Handed[i] = g})
                    <= Cardinality({j \in 1 .. Len(Working) : Working[j] = g})
           /\ \A t \in {calculate_fitness(g) : g \in Genes} :
                 Cardinality({i \in 1 .. Len(Handed) : calculate_fitness(Handed[i]) > t})
                    = LET above == Cardinality({j \in 1 .. Len(Working) :
                                                  calculate_fitness(Working[j]) > t})
                      IN  IF above < selector.count THEN above ELSE selector.count
           /\ \A j \in 1 .. Len(Working) :
                 calculate_fitness(Working[j]) <= calculate_fitness(Handed[1])

\* C31 witness: a call has returned after crossing two parents that are both
\* less fit than a candidate of the working set left out, and less fit than
\* the wrapper the population ranks first.
C31_Witness ==
    /\ AfterCall /\ can_crossover /\ Len(handed_parents) = 1
    /\ \E j \in 1 .. Len(Working) :
          /\ calculate_fitness(Working[j]) < calculate_fitness(handed_parents[1][1])
          /\ calculate_fitness(Working[j]) < calculate_fitness(handed_parents[1][2])
    /\ self.population[1].fitness < calculate_fitness(handed_parents[1][2])

\* -------------------------------------------- the claims on the selector

Selected == sel_result.outcome # "none"
score(g) == calculate_fitness(g)
\* The individuals of the returned pairs, in the order of the pairs.
flat_parents ==
    [i \in 1 .. 2 * Len(sel_result.parents) |->
        sel_result.parents[(i + 1) \div 2][((i - 1) % 2) + 1]]
Min(a, b) == IF a < b THEN a ELSE b
Scores == {score(g) : g \in Genes}

C19_SelectionErrorIsAValue == sel_result.outcome # "panic"

\* C20: a successful select returns count / 2 pairs; read pair by pair they
\* are the count highest-scoring individuals of the slice in descending score
\* order, and the first of them has the maximum score of the slice.
C20_PairsOfTheBest ==
    sel_result.outcome = "Ok"
        => /\ 2 * Len(sel_result.parents) = selector.count
           /\ \A i \in 1 .. Len(flat_parents) - 1 :
                 score(flat_parents[i]) >= score(flat_parents[i + 1])
           /\ \A j \in 1 .. Len(sel_population) :
                 score(flat_parents[1]) >= score(sel_population[j])
           /\ \A g \in Genes :
                 Cardinality({i \in 1 .. Len(flat_parents) : flat_parents[i] = g})
                    <= Cardinality({j \in 1 .. Len(sel_population) : sel_population[j] = g})
           /\ \A t \in Scores :
                 Cardinality({i \in 1 .. Len(flat_parents) : score(flat_parents[i]) > t})
                    = Min(selector.count,
                          Cardinality({j \in 1 .. Len(sel_population) :
                                          score(sel_population[j]) > t}))

\* C20 witness: select has returned two pairs of falling score from a slice
\* that does not start with its best individual.
C20_Witness ==
    /\ sel_result.outcome = "Ok" /\ Len(sel_result.parents) = 2
    /\ score(sel_result.parents[1][1]) > score(sel_result.parents[2][2])
    /\ score(sel_population[1]) < score(sel_result.parents[1][1])

\* The rank of the k-th individual of the slice: after every individual of
\* a higher score and every earlier one of its own score.
rank_in_slice(k) ==
    1 + Cardinality({j \in 1 .. Len(sel_population) :
                        score(sel_population[j]) > score(sel_population[k])})
      + Cardinality({j \in 1 .. k - 1 :
                        score(sel_population[j]) = score(sel_population[k])})

\* C21: a successful select ranks equal scores in the order of the slice:
\* the individual of rank r <= count is the r-th of the returned parents.
C21_TiesKeepInputOrder ==
    sel_result.outcome = "Ok"
        => \A k \in 1 .. Len(sel_population) :
              rank_in_slice(k) <= selector.count
                 => flat_parents[rank_in_slice(k)] = sel_population[k]

\* C21 witness: select has returned parents whose last one shares its score
\* with a different individual left out, and whose first two share theirs
\* while being different individuals.
C21_Witness ==
    /\ sel_result.outcome = "Ok"
    /\ score(flat_parents[1]) = score(flat_parents[2])
    /\ flat_parents[1] # flat_parents[2]
    /\ \E k \in 1 .. Len(sel_population) :
          /\ rank_in_slice(k) > selector.count
          /\ score(sel_population[k]) = score(flat_parents[selector.count])
          /\ sel_population[k] # flat_parents[selector.count]

\* ------------------------------------------------ the claims on pool.for_

Slots == 1 .. Len(pool.population)
RECURSIVE mutate_fixed_times(_, _)
mutate_fixed_times(g, n) ==
    IF n = 0 THEN g ELSE mutate_fixed(mutate_fixed_times(g, n - 1))
\* What one worker after the other makes of the population for_ started on.
OneByOne ==
    [i \in 1 .. Len(pool.start) |->
        [individual |-> mutate_fixed_times(pool.start[i].individual,
                                           pool.start[i].num_of_mutations),
         fittness |-> calculate_fittness(
                         mutate_fixed_times(pool.start[i].individual,
                                            pool.start[i].num_of_mutations)),
         num_of_mutations |-> pool.start[i].num_of_mutations]]

\* C24: when the run body goes on to search and propagate the fittest, every
\* worker has finished, every slot was taken by one worker, and the
\* population is what one worker after the other would have made of it,
\* whatever the thread count and the interleaving.
C24_BarrierBeforePropagation ==
    pool.phase = "joined"
        => /\ \A i \in Slots : pool.status[i] = "done" /\ pool.left[i] = 0
           /\ \A i \in Slots : pool.taken[i] = 1
           /\ pool.population = OneByOne

\* C24 witness: a pool of two threads has finished the mutation phase of a
\* second generation and changed the population.
C24_Witness ==
    /\ pool.phase = "joined" /\ pool.threads = 2 /\ pool.generation = 1
    /\ pool.population # pool.start

BelowIncumbent ==
    {i \in Slots : pool.population[i].fittness < pool.fittest.fittness}
LowestSlots ==
    {i \in Slots : \A j \in Slots :
        pool.population[i].fittness <= pool.population[j].fittness}

\* C33: find_fittest returns the incumbent when no slot of the population has
\* a fitness strictly below the incumbent's, and otherwise the wrapper at
\* the lowest index among the slots of the lowest fitness; it leaves the
\* population as it was.
C33_StrictlyLowerFirstIndex ==
    [][(pool.phase = "joined" /\ pool'.phase = "found")
          => /\ BelowIncumbent = {} => pool'.fittest = pool.fittest
             /\ BelowIncumbent # {}
                   => \E k \in LowestSlots :
                         /\ \A j \in LowestSlots : k <= j
                         /\ pool'.fittest = pool.population[k]
             /\ pool'.population = pool.population]_pool_vars

\* C33 witness: find_fittest has replaced the incumbent by the first of two
\* different wrappers that share the lowest fitness.
C33_Witness ==
    /\ pool.phase = "found"
    /\ pool.fittest # pool.start[1]
    /\ \E k \in Slots, j \in Slots :
          /\ k < j
          /\ pool.population[k] = pool.fittest
          /\ pool.population[j].fittness = pool.fittest.fittness
          /\ pool.population[j] # pool.fittest
          /\ \A i \in Slots : pool.population[i].fittness >= pool.fittest.fittness

\* C33 tie with the incumbent: find_fittest has kept an incumbent that a
\* different wrapper of the population equals in fitness.
C33_IncumbentKept ==
    /\ pool.phase = "found" /\ pool.generation > 0
    /\ \A i \in Slots : pool.population[i] # pool.fittest
    /\ \E i \in Slots : pool.population[i].fittness = pool.fittest.fittness

\* A builder, with no Population and no selector beside it.
SimulationStart ==
    Init /\ NoPopulation /\ NoSelection /\ selector = MaximizeSelector(0) /\ NoPool

Spec == SimulationStart /\ [][Next]_all_vars

\* A Population and the selector handed to its run_body.
PopulationStart == Init /\ PopulationInit /\ NoSelection /\ NoPool

\* Population::run_body and Population::calculate_fitness, in any order.
SpecPopulation == PopulationStart /\ [][PopulationNext]_all_vars

\* A selector and the slice it is called on.
SelectionStart == Init /\ NoPopulation /\ SelectionInit /\ NoPool

\* MaximizeSelector::select on a slice.
SpecSelect == SelectionStart /\ [][SelectionNext]_all_vars

\* A run body about to call pool.for_ on its population.
PoolStart ==
    Init /\ NoPopulation /\ NoSelection /\ selector = MaximizeSelector(0) /\ PoolInit

\* The generations of run_body_global_fittest with the workers of pool.for_
\* interleaved.
SpecPool == PoolStart /\ [][PoolNext]_all_vars

====
